---- MODULE Spec2Model ----
(***************************************************************************)
(* SimpleSealedAuction: a sealed-bid auction over FHE ciphertexts.         *)
(* The contract (fhevm-template/frontend/src/app.js, lines 594-894) is     *)
(* modelled as a state machine: one action per external function, each     *)
(* running to completion or reverting as a whole (EVM transaction).        *)
(* Ciphertexts are opaque handles; the coprocessor's plaintext behind a    *)
(* handle is `plain[h]` and its access-control list is `acl[h]`.           *)
(***************************************************************************)
EXTENDS Integers, Sequences, FiniteSets, TLC

\* ---------------------------------------------------------------- bounds
MaxHandles == 2          \* input ciphertexts placeBid may import in one run
MaxTime == 3600          \* last block timestamp explored
MaxCalls == 3            \* getFHEInstance calls made in one run

\* ------------------------------------------------------ program constants
MinimumBid == 100        \* MINIMUM_BID of the test deployment
DurationInMinutes == 60  \* AUCTION_DURATION of the test deployment
Minute == 60             \* Solidity `1 minutes`
DeployTime == 0          \* block.timestamp of the constructor's block

\* ------------------------------------------------------------ input sets
Seller == "seller"                       \* msg.sender of the constructor
Addr == {"seller", "alice", "bob"}       \* externally owned callers
ZeroAddr == "0x0"                        \* address(0)
AllAddr == Addr \cup {ZeroAddr}          \* keys a mapping is read at
Requesters == {"alice"}                  \* callers of requestResultAccess
This == "contract"                       \* address(this)
\* What a caller submits to placeBid: the plaintext of the encrypted input
\* and the msg.value sent with it (the two are unrelated in the contract).
BidInputs ==
    {[amount |-> 1000, value |-> 100], [amount |-> 1500, value |-> 100],
     [amount |-> 1000, value |-> 200], [amount |-> 1500, value |-> 50]}
TimeSteps == {3600}                      \* seconds between two blocks
NoHandle == 0                            \* uninitialised euint32

VARIABLES
    now,                   \* block.timestamp
    balance,               \* address(this).balance
    bids,                  \* mapping(address => Bid)
    bidders,               \* address[]
    auctionEnded,
    winner,
    encryptedWinningBid,
    encryptedWinnerIndex,
    winnerRevealed,
    revealedWinnerIndex,
    revealedWinningBid,
    refundClaimed,         \* mapping(address => bool)
    sellerClaimed,
    plain,                 \* coprocessor: plaintext behind handle h (1..Len)
    acl,                   \* coprocessor: principals allowed on handle h
    fheTrace,              \* FHE operations executed by endAuction, in order
    last,                  \* the last call: function, sender, inputs, outcome
    refundCount,           \* history: successful claimRefund calls per address
    sellerCount,           \* history: successful sellerClaimWinnings calls
    lastBid,               \* history: inputs of each address's last successful placeBid
    requested,             \* history: addresses whose requestResultAccess succeeded
    frames                 \* calls suspended in their outbound transfer, outermost first

\* The front end's FHE context (unnamed/part_001): module-level singleton
\* state of getFHEInstance, and what its environment holds.
VARIABLES
    fheInstance,           \* let fheInstance = null
    isInitialized,         \* let isInitialized = false
    initPromise,           \* let initPromise = null
    initError,             \* let initError = null
    promises,              \* the promises of the initialisation attempts, in order
    provider,              \* whether window.ethereum is there
    created,               \* history: createInstance invocations
    calls                  \* history: what each getFHEInstance call returned

cvars == <<balance, bids, bidders, auctionEnded, winner, encryptedWinningBid,
           encryptedWinnerIndex, winnerRevealed, revealedWinnerIndex,
           revealedWinningBid, refundClaimed, sellerClaimed, plain, acl,
           fheTrace, refundCount, sellerCount, lastBid, requested>>

fvars == <<fheInstance, isInitialized, initPromise, initError, promises,
           provider, created, calls>>

vars == <<now, last, cvars, frames, fvars>>

NoInstance == 0         \* fheInstance = null
NoPromise == 0          \* initPromise = null
NoError == "null"       \* initError = null

\* constructor: auctionEndTime = block.timestamp + (_durationInMinutes * 1 minutes)
auctionEndTime == DeployTime + DurationInMinutes * Minute

NoBid == [encryptedAmount |-> NoHandle, escrowAmount |-> 0, exists |-> FALSE]

\* ------------------------------------------------------------- ciphertexts
\* The plaintext a handle decrypts to (an uninitialised handle reads as 0).
Decrypt(h) == IF h = NoHandle THEN 0 ELSE plain[h]

\* Mutant: the comparison lets a later equal bid replace the running maximum.
FHE_ge(a, b) == a >= b

\* ebool result of FHE.gt, as plaintext
FHE_gt(a, b) == a > b

\* plaintext of FHE.select(cond, a, b)
FHE_select(cond, a, b) == IF cond THEN a ELSE b

\* A coprocessor store s = [plain, acl, trace] extended by one fresh handle
\* holding v, produced by operation op. The new handle is Len(s.plain) + 1.
Alloc(s, v, op) ==
    [s EXCEPT !.plain = Append(@, v), !.acl = Append(@, {}),
              !.trace = Append(@, op)]

\* FHE.allow(handle, who) on an acl
Allow(a, h, who) == [a EXCEPT ![h] = @ \cup {who}]

\* ------------------------------------------------------------ call record
\* `last` describes the last call that got past its require checks: the
\* function, msg.sender, msg.value, the plaintext arguments, the outcome and
\* the amount the contract paid out. A call rejected by a require (or by
\* FHE.fromExternal) is decided by the state before it alone; it is described
\* by the ...Error operators and leaves nothing behind.
Call(op, sender, result, value, args, sent) ==
    [op |-> op, sender |-> sender, result |-> result, value |-> value,
     args |-> args, sent |-> sent]

NoInput == [amount |-> 0, value |-> 0]

\* A reverted transaction: every storage write, every ETH movement and every
\* ACL grant of the call is undone.
Revert == UNCHANGED <<now, last, cvars>>

\* Mutant: the failed payout is not rolled back (a `send` whose result is
\* ignored): the claim flag stays set although no money moved.
TransferFailedKeepsClaim(op, sender, value, args) ==
    /\ last' = Call(op, sender, "TransferFailed", value, args, 0)
    /\ refundClaimed' = IF op = "claimRefund"
                        THEN [refundClaimed EXCEPT ![sender] = TRUE]
                        ELSE refundClaimed
    /\ sellerClaimed' = (sellerClaimed \/ op = "sellerClaimWinnings")
    /\ UNCHANGED <<now, balance, bids, bidders, auctionEnded, winner,
                   encryptedWinningBid, encryptedWinnerIndex, winnerRevealed,
                   revealedWinnerIndex, revealedWinningBid, plain, acl,
                   fheTrace, refundCount, sellerCount, lastBid, requested>>

\* Mutant: the failed refund of an update is not rolled back: the record
\* already holds the new escrow and the contract keeps the new payment.
TransferFailedKeepsBid(op, sender, value, args) ==
    /\ last' = Call(op, sender, "TransferFailed", value, args, 0)
    /\ bids' = IF op = "placeBid"
               THEN [bids EXCEPT ![sender].escrowAmount = value]
               ELSE bids
    /\ balance' = IF op = "placeBid" THEN balance + value ELSE balance
    /\ UNCHANGED <<now, bidders, auctionEnded, winner, encryptedWinningBid,
                   encryptedWinnerIndex, winnerRevealed, revealedWinnerIndex,
                   revealedWinningBid, refundClaimed, sellerClaimed, plain,
                   acl, fheTrace, refundCount, sellerCount, lastBid,
                   requested>>

\* Mutant: the rollback of a failed payout also clears the claim flags that
\* earlier transactions had set.
TransferFailedResetsLedger(op, sender, value, args) ==
    /\ last' = Call(op, sender, "TransferFailed", value, args, 0)
    /\ refundClaimed' = [a \in AllAddr |-> FALSE]
    /\ sellerClaimed' = FALSE
    /\ UNCHANGED <<now, balance, bids, bidders, auctionEnded, winner,
                   encryptedWinningBid, encryptedWinnerIndex, winnerRevealed,
                   revealedWinnerIndex, revealedWinningBid, plain, acl,
                   fheTrace, refundCount, sellerCount, lastBid, requested>>

\* A transaction reverted by its outbound transfer: state as before the call.
TransferFailed(op, sender, value, args) ==
    /\ last' = Call(op, sender, "TransferFailed", value, args, 0)
    /\ UNCHANGED <<now, cvars>>

\* address.transfer(amount) reverts when the recipient rejects the payment or
\* the contract does not hold the amount.
TransferReverts(amount, accepts, held) == ~accepts \/ held < amount

Init ==
    /\ now = DeployTime
    /\ balance = 0
    /\ bids = [a \in AllAddr |-> NoBid]
    /\ bidders = <<>>
    /\ auctionEnded = FALSE
    /\ winner = ZeroAddr
    /\ encryptedWinningBid = NoHandle
    /\ encryptedWinnerIndex = NoHandle
    /\ winnerRevealed = FALSE
    /\ revealedWinnerIndex = 0
    /\ revealedWinningBid = 0
    /\ refundClaimed = [a \in AllAddr |-> FALSE]
    /\ sellerClaimed = FALSE
    /\ plain = <<>>
    /\ acl = <<>>
    /\ fheTrace = <<>>
    /\ last = Call("constructor", Seller, "ok", 0, <<>>, 0)
    /\ refundCount = [a \in Addr |-> 0]
    /\ sellerCount = 0
    /\ lastBid = [a \in Addr |-> NoInput]
    /\ requested = {}
    /\ frames = <<>>
    /\ fheInstance = NoInstance
    /\ isInitialized = FALSE
    /\ initPromise = NoPromise
    /\ initError = NoError
    /\ promises = <<>>
    /\ provider = FALSE
    /\ created = 0
    /\ calls = <<>>

\* A later block is mined: block.timestamp only grows. No transaction is in
\* progress across blocks.
Tick ==
    \E d \in TimeSteps :
        /\ frames = <<>>
        /\ now + d <= MaxTime
        /\ now' = now + d
        /\ last' = Call("tick", ZeroAddr, "ok", 0, <<d>>, 0)
        /\ UNCHANGED <<cvars, frames, fvars>>

\* ---------------------------------------------------------------- placeBid
\* Mutant: the old escrow is read after the record was overwritten.
oldEscrowAfterWrite(sender, value) == value

\* Mutant: the update pays nothing back.
oldEscrowForgotten(sender, value) == 0

\* The escrow paid back to an updating bidder: read before the record is
\* overwritten.
oldEscrow(sender, value) == bids[sender].escrowAmount

\* Mutant: an update adds the new escrow to the stored one.
storedBidAccumulated(sender, value, encryptedBid) ==
    [encryptedAmount |-> encryptedBid,
     escrowAmount |-> bids[sender].escrowAmount + value, exists |-> TRUE]

\* The record written for the sender, for a first bid and for an update alike.
storedBid(sender, value, encryptedBid) ==
    [encryptedAmount |-> encryptedBid, escrowAmount |-> value, exists |-> TRUE]

\* Mutant: the seller is allowed on every imported bid as well.
bidAclWithSeller(sender) == {This, sender, Seller}

\* FHE.allowThis(encryptedBid); FHE.allow(encryptedBid, msg.sender)
bidAcl(sender) == {This, sender}

\* Mutant: an update pushes the sender onto the list again.
biddersAlwaysPushed(sender) == Append(bidders, sender)

\* bidders.push(msg.sender), in the first-bid branch only.
biddersAfterBid(sender) ==
    IF bids[sender].exists THEN bidders ELSE Append(bidders, sender)

\* Mutant: the time check is missing.
placeBidErrorNoTimeCheck(sender, value, proofOk) ==
    IF ~(value >= MinimumBid) THEN "Escrow must meet minimum bid"
    ELSE IF ~proofOk THEN "InvalidCiphertext"
    ELSE "ok"

\* Mutant: the minimum-escrow check is missing.
placeBidErrorNoMinimumCheck(sender, value, proofOk) ==
    IF ~(now < auctionEndTime) THEN "Auction has ended"
    ELSE IF ~proofOk THEN "InvalidCiphertext"
    ELSE "ok"

\* Mutant: bidding closes on the auctionEnded flag instead of the clock.
placeBidErrorEndedFlag(sender, value, proofOk) ==
    IF auctionEnded THEN "Auction has ended"
    ELSE IF ~(value >= MinimumBid) THEN "Escrow must meet minimum bid"
    ELSE IF ~proofOk THEN "InvalidCiphertext"
    ELSE "ok"

placeBidError(sender, value, proofOk) ==
    IF ~(now < auctionEndTime) THEN "Auction has ended"
    ELSE IF ~(value >= MinimumBid) THEN "Escrow must meet minimum bid"
    ELSE IF ~proofOk THEN "InvalidCiphertext"
    ELSE "ok"

placeBid(sender, value, amount, proofOk, accepts) ==
    LET err == placeBidError(sender, value, proofOk)
        encryptedBid == Len(plain) + 1
        refund == IF bids[sender].exists THEN oldEscrow(sender, value) ELSE 0
    IN  IF err # "ok" THEN Revert
        ELSE IF /\ bids[sender].exists
                /\ TransferReverts(refund, accepts, balance + value)
        THEN TransferFailed("placeBid", sender, value, <<amount>>)
        ELSE /\ Len(plain) < MaxHandles
             /\ plain' = Append(plain, amount)
             /\ acl' = Append(acl, bidAcl(sender))
             /\ bids' = [bids EXCEPT ![sender] =
                            storedBid(sender, value, encryptedBid)]
             /\ lastBid' = [lastBid EXCEPT ![sender] =
                               [amount |-> amount, value |-> value]]
             /\ bidders' = biddersAfterBid(sender)
             /\ balance' = balance + value - refund
             /\ last' = Call("placeBid", sender, "ok", value, <<amount>>, refund)
             /\ UNCHANGED <<now, auctionEnded, winner, encryptedWinningBid,
                            encryptedWinnerIndex, winnerRevealed,
                            revealedWinnerIndex, revealedWinningBid,
                            refundClaimed, sellerClaimed, fheTrace,
                            refundCount, sellerCount, requested>>

\* -------------------------------------------------------------- endAuction
\* Mutant: the "already ended" check is missing.
endAuctionErrorNoEndedCheck ==
    IF ~(now >= auctionEndTime) THEN "Auction still active"
    ELSE IF ~(Len(bidders) > 0) THEN "No bids placed"
    ELSE "ok"

\* Mutant: the time check is missing.
endAuctionErrorNoTimeCheck ==
    IF auctionEnded THEN "Auction already ended"
    ELSE IF ~(Len(bidders) > 0) THEN "No bids placed"
    ELSE "ok"

\* Mutant: the "no bids" check is missing.
endAuctionErrorNoBidsCheck ==
    IF ~(now >= auctionEndTime) THEN "Auction still active"
    ELSE IF auctionEnded THEN "Auction already ended"
    ELSE "ok"

endAuctionError ==
    IF ~(now >= auctionEndTime) THEN "Auction still active"
    ELSE IF auctionEnded THEN "Auction already ended"
    ELSE IF ~(Len(bidders) > 0) THEN "No bids placed"
    ELSE "ok"

\* Mutant: the loop encrypts the 1-based position instead of the index.
ScanStepOneBased(s, i) ==
    LET currentBid == bids[bidders[i + 1]].encryptedAmount
        s1 == Alloc(s, IF FHE_gt(s.plain[currentBid], s.plain[s.maxBid])
                       THEN 1 ELSE 0, "gt")
        isGreater == Len(s1.plain)
        s2 == Alloc(s1, FHE_select(s1.plain[isGreater] = 1,
                                   s1.plain[currentBid], s1.plain[s.maxBid]),
                    "select")
        newMax == Len(s2.plain)
        s3 == Alloc(s2, i + 1, "asEuint32")
        iHandle == Len(s3.plain)
        s4 == Alloc(s3, FHE_select(s3.plain[isGreater] = 1,
                                   s3.plain[iHandle], s3.plain[s.winnerIndex]),
                    "select")
    IN  [s4 EXCEPT !.maxBid = newMax, !.winnerIndex = Len(s4.plain)]

\* Mutant: the loop body branches on the plaintext of the comparison and
\* updates the running maximum and index only when the bid is greater.
ScanStepBranching(s, i) ==
    LET currentBid == bids[bidders[i + 1]].encryptedAmount
        s1 == Alloc(s, IF FHE_gt(s.plain[currentBid], s.plain[s.maxBid])
                       THEN 1 ELSE 0, "gt")
        s2 == Alloc(s1, i, "asEuint32")
    IN  IF s1.plain[Len(s1.plain)] = 1
        THEN [s2 EXCEPT !.maxBid = currentBid, !.winnerIndex = Len(s2.plain)]
        ELSE s1

\* One pass of the loop body for Solidity index i (bidders[i] is the
\* (i+1)-th element of the sequence); s carries the coprocessor store and the
\* two running handles maxBid and winnerIndex.
ScanStep(s, i) ==
    LET currentBid == bids[bidders[i + 1]].encryptedAmount
        s1 == Alloc(s, IF FHE_gt(s.plain[currentBid], s.plain[s.maxBid])
                       THEN 1 ELSE 0, "gt")
        isGreater == Len(s1.plain)
        s2 == Alloc(s1, FHE_select(s1.plain[isGreater] = 1,
                                   s1.plain[currentBid], s1.plain[s.maxBid]),
                    "select")
        newMax == Len(s2.plain)
        s3 == Alloc(s2, i, "asEuint32")
        iHandle == Len(s3.plain)
        s4 == Alloc(s3, FHE_select(s3.plain[isGreater] = 1,
                                   s3.plain[iHandle], s3.plain[s.winnerIndex]),
                    "select")
    IN  [s4 EXCEPT !.maxBid = newMax, !.winnerIndex = Len(s4.plain)]

RECURSIVE Scan(_, _)
Scan(s, i) == IF i < Len(bidders) THEN Scan(ScanStep(s, i), i + 1) ELSE s

\* The store after the whole winner search.
WinnerSearch ==
    LET s0 == Alloc([plain |-> plain, acl |-> acl, trace |-> <<>>,
                     maxBid |-> bids[bidders[1]].encryptedAmount,
                     winnerIndex |-> NoHandle],
                    0, "asEuint32")
    IN  Scan([s0 EXCEPT !.winnerIndex = Len(s0.plain)], 1)

endAuction(sender) ==
    LET err == endAuctionError
        s == WinnerSearch
    IN  IF err # "ok"
        THEN Revert
        ELSE /\ encryptedWinningBid' = s.maxBid
             /\ encryptedWinnerIndex' = s.winnerIndex
             /\ plain' = s.plain
             /\ acl' = Allow(Allow(s.acl, s.maxBid, This), s.winnerIndex, This)
             /\ fheTrace' = s.trace
             /\ auctionEnded' = TRUE
             /\ last' = Call("endAuction", sender, "ok", 0, <<>>, 0)
             /\ UNCHANGED <<now, balance, bids, bidders, winner, winnerRevealed,
                            revealedWinnerIndex, revealedWinningBid,
                            refundClaimed, sellerClaimed, refundCount,
                            sellerCount, lastBid, requested>>

\* ------------------------------------------------------ requestResultAccess
\* Mutant: access to the results is granted in every phase.
requestResultAccessErrorNoCheck == "ok"

requestResultAccessError == IF ~auctionEnded THEN "Auction not ended" ELSE "ok"

requestResultAccess(sender) ==
    IF requestResultAccessError # "ok" THEN Revert
    ELSE /\ acl' = Allow(Allow(acl, encryptedWinningBid, sender),
                         encryptedWinnerIndex, sender)
         /\ requested' = requested \cup {sender}
         /\ last' = Call("requestResultAccess", sender, "ok", 0, <<>>, 0)
         /\ UNCHANGED <<now, balance, bids, bidders, auctionEnded, winner,
                        encryptedWinningBid, encryptedWinnerIndex,
                        winnerRevealed, revealedWinnerIndex, revealedWinningBid,
                        refundClaimed, sellerClaimed, plain, fheTrace,
                        refundCount, sellerCount, lastBid>>

\* ------------------------------------------------------------ revealWinner
\* Mutant: the index check admits the list length.
revealWinnerErrorIndexOffByOne(decryptedIndex) ==
    IF ~auctionEnded THEN "Auction not ended"
    ELSE IF winnerRevealed THEN "Winner already revealed"
    ELSE IF ~(decryptedIndex <= Len(bidders)) THEN "Invalid winner index"
    ELSE "ok"

\* Mutant: the "auction ended" check is missing.
revealWinnerErrorNoEndedCheck(decryptedIndex) ==
    IF winnerRevealed THEN "Winner already revealed"
    ELSE IF ~(decryptedIndex < Len(bidders)) THEN "Invalid winner index"
    ELSE "ok"

\* Mutant: the "already revealed" check is missing.
revealWinnerErrorNoRevealedCheck(decryptedIndex) ==
    IF ~auctionEnded THEN "Auction not ended"
    ELSE IF ~(decryptedIndex < Len(bidders)) THEN "Invalid winner index"
    ELSE "ok"

revealWinnerError(decryptedIndex) ==
    IF ~auctionEnded THEN "Auction not ended"
    ELSE IF winnerRevealed THEN "Winner already revealed"
    ELSE IF ~(decryptedIndex < Len(bidders)) THEN "Invalid winner index"
    ELSE "ok"

\* Mutant: the winner is always the first bidder.
revealedWinnerFirst(decryptedIndex) == bidders[1]

\* winner = bidders[decryptedIndex], for the 0-based Solidity index.
revealedWinner(decryptedIndex) == bidders[decryptedIndex + 1]

revealWinner(sender, decryptedIndex, decryptedBid) ==
    LET err == revealWinnerError(decryptedIndex)
    IN  IF err # "ok"
        THEN Revert
        ELSE /\ revealedWinnerIndex' = decryptedIndex
             /\ revealedWinningBid' = decryptedBid
             /\ winner' = revealedWinner(decryptedIndex)
             /\ winnerRevealed' = TRUE
             /\ last' = Call("revealWinner", sender, "ok", 0,
                             <<decryptedIndex, decryptedBid>>, 0)
             /\ UNCHANGED <<now, balance, bids, bidders, auctionEnded,
                            encryptedWinningBid, encryptedWinnerIndex,
                            refundClaimed, sellerClaimed, plain, acl, fheTrace,
                            refundCount, sellerCount, lastBid, requested>>

\* ------------------------------------------------------------- claimRefund
\* Mutant: the "already claimed" check is missing.
claimRefundErrorNoClaimedCheck(sender) ==
    IF ~winnerRevealed THEN "Winner not revealed yet"
    ELSE IF ~bids[sender].exists THEN "No bid placed"
    ELSE IF ~(sender # winner) THEN "Winner cannot claim refund"
    ELSE "ok"

\* Mutant: the winner check is missing.
claimRefundErrorNoWinnerCheck(sender) ==
    IF ~winnerRevealed THEN "Winner not revealed yet"
    ELSE IF ~bids[sender].exists THEN "No bid placed"
    ELSE IF refundClaimed[sender] THEN "Refund already claimed"
    ELSE "ok"

claimRefundError(sender) ==
    IF ~winnerRevealed THEN "Winner not revealed yet"
    ELSE IF ~bids[sender].exists THEN "No bid placed"
    ELSE IF ~(sender # winner) THEN "Winner cannot claim refund"
    ELSE IF refundClaimed[sender] THEN "Refund already claimed"
    ELSE "ok"

\* Mutant: the refunded escrow is zeroed in the record.
bidsAfterRefundZeroed(sender) == [bids EXCEPT ![sender].escrowAmount = 0]

\* claimRefund reads bids[msg.sender].escrowAmount and writes no bid record.
bidsAfterRefund(sender) == bids

\* Mutant: the claim flag is not yet written when the transfer is made.
refundClaimedWrittenLate(sender) == refundClaimed

\* refundClaimed[msg.sender] = true, written before the transfer.
refundClaimedAtTransfer(sender) == [refundClaimed EXCEPT ![sender] = TRUE]

claimRefund(sender, accepts) ==
    LET err == claimRefundError(sender)
        escrowAmount == bids[sender].escrowAmount
    IN  IF err # "ok"
        THEN Revert
        ELSE IF TransferReverts(escrowAmount, accepts, balance)
        THEN TransferFailed("claimRefund", sender, 0, <<>>)
        ELSE /\ refundClaimed' = refundClaimedAtTransfer(sender)
             /\ balance' = balance - escrowAmount
             /\ refundCount' = [refundCount EXCEPT ![sender] = @ + 1]
             /\ last' = Call("claimRefund", sender, "ok", 0, <<>>, escrowAmount)
             /\ bids' = bidsAfterRefund(sender)
             /\ UNCHANGED <<now, bidders, auctionEnded, winner,
                            encryptedWinningBid, encryptedWinnerIndex,
                            winnerRevealed, revealedWinnerIndex,
                            revealedWinningBid, sellerClaimed, plain, acl,
                            fheTrace, sellerCount, lastBid, requested>>

\* ----------------------------------------------------- sellerClaimWinnings
\* Mutant: anyone may trigger the seller's payout.
sellerClaimWinningsErrorNoSellerCheck(sender) ==
    IF ~winnerRevealed THEN "Winner not revealed yet"
    ELSE IF sellerClaimed THEN "Already claimed"
    ELSE "ok"

\* Mutant: the seller may claim before the winner is revealed.
sellerClaimWinningsErrorNoRevealCheck(sender) ==
    IF ~(sender = Seller) THEN "Only seller can claim"
    ELSE IF sellerClaimed THEN "Already claimed"
    ELSE "ok"

sellerClaimWinningsError(sender) ==
    IF ~(sender = Seller) THEN "Only seller can claim"
    ELSE IF ~winnerRevealed THEN "Winner not revealed yet"
    ELSE IF sellerClaimed THEN "Already claimed"
    ELSE "ok"

\* Mutant: the seller is paid whatever the contract holds at the time.
winnerEscrowSweepsBalance == balance

\* Mutant: the seller is paid the revealed bid value.
winnerEscrowFromRevealedBid == revealedWinningBid

\* The amount paid to the seller: the escrow stored for the revealed winner.
winnerEscrow == bids[winner].escrowAmount

sellerClaimWinnings(sender, accepts) ==
    LET err == sellerClaimWinningsError(sender)
    IN  IF err # "ok"
        THEN Revert
        ELSE IF TransferReverts(winnerEscrow, accepts, balance)
        THEN TransferFailed("sellerClaimWinnings", sender, 0, <<>>)
        ELSE /\ sellerClaimed' = TRUE
             /\ balance' = balance - winnerEscrow
             /\ sellerCount' = sellerCount + 1
             /\ last' = Call("sellerClaimWinnings", sender, "ok", 0, <<>>,
                             winnerEscrow)
             /\ UNCHANGED <<now, bids, bidders, auctionEnded, winner,
                            encryptedWinningBid, encryptedWinnerIndex,
                            winnerRevealed, revealedWinnerIndex,
                            revealedWinningBid, refundClaimed, plain, acl,
                            fheTrace, refundCount, lastBid, requested>>

\* ---------------------------------------------------------- getAuctionInfo
\* The view's return values (the title is a constant of the deployment).
getAuctionInfo ==
    [endTime |-> auctionEndTime, minBid |-> MinimumBid,
     ended |-> auctionEnded, bidderCount |-> Len(bidders)]

\* ---------------------------------------------------------- canClaimRefund
\* Mutant: the view does not look at the claim flag.
canClaimRefundIgnoresClaimed(bidder) ==
    IF ~winnerRevealed THEN [canClaim |-> FALSE, amount |-> 0]
    ELSE IF ~bids[bidder].exists THEN [canClaim |-> FALSE, amount |-> 0]
    ELSE IF bidder = winner THEN [canClaim |-> FALSE, amount |-> 0]
    ELSE [canClaim |-> TRUE, amount |-> bids[bidder].escrowAmount]

\* The view function's return values (canClaim, amount); a view reads the
\* state and writes nothing.
canClaimRefund(bidder) ==
    IF ~winnerRevealed THEN [canClaim |-> FALSE, amount |-> 0]
    ELSE IF ~bids[bidder].exists THEN [canClaim |-> FALSE, amount |-> 0]
    ELSE IF bidder = winner THEN [canClaim |-> FALSE, amount |-> 0]
    ELSE IF refundClaimed[bidder] THEN [canClaim |-> FALSE, amount |-> 0]
    ELSE [canClaim |-> TRUE, amount |-> bids[bidder].escrowAmount]

\* ------------------------------------------------------------------- Next
\* msg.sender of the next call: any address when no call is in progress; while
\* a transfer is in progress, the recipient that holds control (the sender of
\* the innermost suspended call).
Callers ==
    IF frames = <<>> THEN Addr ELSE {frames[Len(frames)].call.sender}

PlaceBid ==
    \E sender \in Callers, bid \in BidInputs,
       proofOk \in BOOLEAN, accepts \in BOOLEAN :
        /\ placeBid(sender, bid.value, bid.amount, proofOk, accepts)
        /\ UNCHANGED <<frames, fvars>>

EndAuction == \E sender \in Callers : endAuction(sender) /\ UNCHANGED <<frames, fvars>>

RequestResultAccess ==
    \E sender \in Requesters \cap Callers :
        requestResultAccess(sender) /\ UNCHANGED <<frames, fvars>>

RevealWinner ==
    \E sender \in Callers, decryptedIndex \in 0..Len(bidders),
       decryptedBid \in {0, Decrypt(encryptedWinningBid)} :
        /\ revealWinner(sender, decryptedIndex, decryptedBid)
        /\ UNCHANGED <<frames, fvars>>

ClaimRefund ==
    \E sender \in Callers, accepts \in BOOLEAN :
        claimRefund(sender, accepts) /\ UNCHANGED <<frames, fvars>>

SellerClaimWinnings ==
    \E sender \in Callers, accepts \in BOOLEAN :
        sellerClaimWinnings(sender, accepts) /\ UNCHANGED <<frames, fvars>>

Next ==
    \/ Tick
    \/ PlaceBid
    \/ EndAuction
    \/ RequestResultAccess
    \/ RevealWinner
    \/ ClaimRefund
    \/ SellerClaimWinnings

Spec == Init /\ [][Next]_vars

\* ------------------------------------------------------ re-entrant execution
\* payable(x).transfer(amount) hands control to x. In claimRefund,
\* sellerClaimWinnings and the update branch of placeBid every storage write
\* precedes the transfer and only an emit follows it, so the state x sees is
\* the state the call leaves behind. While the transfer is in progress the
\* call is suspended in `frames` with the state it would roll back to; x may
\* call any function of the contract, then accept the payment or revert.
Snapshot ==
    [balance |-> balance, bids |-> bids, bidders |-> bidders,
     auctionEnded |-> auctionEnded, winner |-> winner,
     encryptedWinningBid |-> encryptedWinningBid,
     encryptedWinnerIndex |-> encryptedWinnerIndex,
     winnerRevealed |-> winnerRevealed,
     revealedWinnerIndex |-> revealedWinnerIndex,
     revealedWinningBid |-> revealedWinningBid,
     refundClaimed |-> refundClaimed, sellerClaimed |-> sellerClaimed,
     plain |-> plain, acl |-> acl, fheTrace |-> fheTrace,
     refundCount |-> refundCount, sellerCount |-> sellerCount,
     lastBid |-> lastBid, requested |-> requested]

\* The revert of a suspended call: everything done since it began is undone,
\* the calls nested in it included.
Restore(sv) ==
    /\ balance' = sv.balance
    /\ bids' = sv.bids
    /\ bidders' = sv.bidders
    /\ auctionEnded' = sv.auctionEnded
    /\ winner' = sv.winner
    /\ encryptedWinningBid' = sv.encryptedWinningBid
    /\ encryptedWinnerIndex' = sv.encryptedWinnerIndex
    /\ winnerRevealed' = sv.winnerRevealed
    /\ revealedWinnerIndex' = sv.revealedWinnerIndex
    /\ revealedWinningBid' = sv.revealedWinningBid
    /\ refundClaimed' = sv.refundClaimed
    /\ sellerClaimed' = sv.sellerClaimed
    /\ plain' = sv.plain
    /\ acl' = sv.acl
    /\ fheTrace' = sv.fheTrace
    /\ refundCount' = sv.refundCount
    /\ sellerCount' = sv.sellerCount
    /\ lastBid' = sv.lastBid
    /\ requested' = sv.requested

\* The call just made stays suspended in its transfer.
Suspend ==
    /\ frames' = Append(frames, [call |-> last', saved |-> Snapshot])
    /\ UNCHANGED fvars

ClaimRefundCallsOut ==
    \E sender \in Callers :
        /\ claimRefundError(sender) = "ok"
        /\ claimRefund(sender, TRUE)
        /\ last'.result = "ok"
        /\ Suspend

SellerClaimWinningsCallsOut ==
    \E sender \in Callers :
        /\ sellerClaimWinningsError(sender) = "ok"
        /\ sellerClaimWinnings(sender, TRUE)
        /\ last'.result = "ok"
        /\ Suspend

PlaceBidCallsOut ==
    \E sender \in Callers, bid \in BidInputs :
        /\ bids[sender].exists
        /\ placeBidError(sender, bid.value, TRUE) = "ok"
        /\ placeBid(sender, bid.value, bid.amount, TRUE, TRUE)
        /\ last'.result = "ok"
        /\ Suspend

\* The recipient accepts the payment: the innermost suspended call completes.
TransferReturns ==
    /\ frames # <<>>
    /\ frames' = SubSeq(frames, 1, Len(frames) - 1)
    /\ last' = frames[Len(frames)].call
    /\ UNCHANGED <<now, cvars, fvars>>

\* The recipient reverts: the innermost suspended call is rolled back.
TransferRejected ==
    /\ frames # <<>>
    /\ frames' = SubSeq(frames, 1, Len(frames) - 1)
    /\ last' = [frames[Len(frames)].call EXCEPT
                    !.result = "TransferFailed", !.sent = 0]
    /\ Restore(frames[Len(frames)].saved)
    /\ UNCHANGED <<now, fvars>>

NextReentrant ==
    \/ Next
    \/ ClaimRefundCallsOut
    \/ SellerClaimWinningsCallsOut
    \/ PlaceBidCallsOut
    \/ TransferReturns
    \/ TransferRejected

SpecReentrant == Init /\ [][NextReentrant]_vars

\* ------------------------------------------------------ callers that persist
\* The contract never acts by itself: endAuction, revealWinner and the claims
\* are calls somebody has to make. A caller who keeps trying while the call
\* can succeed eventually gets it mined; a recipient that accepts payments
\* is the `accepts = TRUE` input of the two claims.
RefundAccepted(a) == claimRefund(a, TRUE) /\ UNCHANGED <<frames, fvars>>

WinningsAccepted == sellerClaimWinnings(Seller, TRUE) /\ UNCHANGED <<frames, fvars>>

\* endAuction and revealWinner change the state exactly when their requires
\* pass, so these two predicates are ENABLED <<EndAuction>>_vars and
\* ENABLED <<RevealWinner>>_vars.
EndAuctionEnabled == endAuctionError = "ok"

RevealWinnerEnabled ==
    \E decryptedIndex \in 0..Len(bidders) :
        revealWinnerError(decryptedIndex) = "ok"

\* Weak fairness of the four calls; for endAuction and revealWinner it is
\* WF_vars written out, with the enabling condition in the form above.
Persistence ==
    /\ []<>(~EndAuctionEnabled) \/ []<><<EndAuction>>_vars
    /\ []<>(~RevealWinnerEnabled) \/ []<><<RevealWinner>>_vars
    /\ \A a \in Addr : WF_vars(RefundAccepted(a))
    /\ WF_vars(WinningsAccepted)

SpecLive == Init /\ [][Next]_vars /\ Persistence

\* ------------------------------------------------------------ FHE context
\* getFHEInstance (unnamed/part_001, lines 41-92). JavaScript runs one job
\* at a time: a call runs up to its return, an initialisation attempt runs
\* from one await to the next. An attempt is the promise of the async
\* function started at line 53; `at` is the await it is suspended in.
ProviderMissing == "Ethereum provider not available. Please install MetaMask."

\* err.message of what an awaited step throws.
Failure(at) ==
    CASE at = "initializeFHE" -> "initSDK function not available from FHE SDK"
      [] at = "import" -> "Required FHE SDK functions not available"
      [] OTHER -> "Failed to initialize FHE"

InProgress == {p \in 1..Len(promises) : promises[p].state = "pending"}

\* Mutant: no check for an attempt in flight.
startsInitializationAlways == TRUE

\* Lines 48-50: `if (initPromise) return initPromise;`
startsInitialization == initPromise = NoPromise

\* One call, up to its return. On the provider check's throw (line 58) the
\* catch block runs before the async function has returned: line 85 writes
\* null, then the assignment of line 53 stores the function's promise,
\* already rejected.
getFHEInstance ==
    /\ Len(calls) < MaxCalls
    /\ IF fheInstance # NoInstance /\ isInitialized
       THEN /\ calls' = Append(calls, [path |-> "instance",
                                       value |-> fheInstance,
                                       state |-> "fulfilled"])
            /\ UNCHANGED <<fheInstance, isInitialized, initPromise, initError,
                           promises, provider, created>>
       ELSE IF ~startsInitialization
       THEN /\ calls' = Append(calls, [path |-> "initPromise",
                                       value |-> initPromise,
                                       state |-> promises[initPromise].state])
            /\ UNCHANGED <<fheInstance, isInitialized, initPromise, initError,
                           promises, provider, created>>
       ELSE LET p == Len(promises) + 1
                state == IF provider THEN "pending" ELSE "rejected"
            IN  /\ promises' = Append(promises,
                                      [state |-> state,
                                       at |-> IF provider THEN "initializeFHE"
                                                          ELSE "done",
                                       value |-> NoInstance])
                /\ initError' = IF provider THEN NoError ELSE ProviderMissing
                /\ initPromise' = p
                /\ calls' = Append(calls, [path |-> "started", value |-> p,
                                           state |-> state])
                /\ UNCHANGED <<fheInstance, isInitialized, provider, created>>
    /\ UNCHANGED <<now, last, cvars, frames>>

\* Lines 82-88: the catch block of attempt p, reached from an await.
Catch(p) ==
    /\ promises' = [promises EXCEPT ![p].state = "rejected", ![p].at = "done"]
    /\ initError' = Failure(promises[p].at)
    /\ initPromise' = NoPromise
    /\ UNCHANGED <<fheInstance, isInitialized, provider, created, calls>>

\* Line 63: `await initializeFHE()` settles.
InitializeFHEReturns ==
    \E p \in InProgress, ok \in BOOLEAN :
        /\ promises[p].at = "initializeFHE"
        /\ IF ok
           THEN /\ promises' = [promises EXCEPT ![p].at = "import"]
                /\ UNCHANGED <<fheInstance, isInitialized, initPromise,
                               initError, provider, created, calls>>
           ELSE Catch(p)
        /\ UNCHANGED <<now, last, cvars, frames>>

\* Lines 66-77: the SDK import settles; createInstance is invoked.
ImportReturns ==
    \E p \in InProgress, ok \in BOOLEAN :
        /\ promises[p].at = "import"
        /\ IF ok
           THEN /\ promises' = [promises EXCEPT ![p].at = "createInstance",
                                                ![p].value = created + 1]
                /\ created' = created + 1
                /\ UNCHANGED <<fheInstance, isInitialized, initPromise,
                               initError, provider, calls>>
           ELSE Catch(p)
        /\ UNCHANGED <<now, last, cvars, frames>>

\* Lines 77-81: createInstance settles; the instance is stored and returned.
CreateInstanceReturns ==
    \E p \in InProgress, ok \in BOOLEAN :
        /\ promises[p].at = "createInstance"
        /\ IF ok
           THEN /\ fheInstance' = promises[p].value
                /\ isInitialized' = TRUE
                /\ promises' = [promises EXCEPT ![p].state = "fulfilled",
                                                ![p].at = "done"]
                /\ UNCHANGED <<initPromise, initError, provider, created,
                               calls>>
           ELSE Catch(p)
        /\ UNCHANGED <<now, last, cvars, frames>>

\* The wallet extension injects window.ethereum, or is switched off.
ProviderChanges ==
    /\ provider' = ~provider
    /\ UNCHANGED <<fheInstance, isInitialized, initPromise, initError,
                   promises, created, calls>>
    /\ UNCHANGED <<now, last, cvars, frames>>

NextFHE ==
    \/ getFHEInstance
    \/ InitializeFHEReturns
    \/ ImportReturns
    \/ CreateInstanceReturns
    \/ ProviderChanges

SpecFHE == Init /\ [][NextFHE]_vars

TypeOK ==
    /\ now \in 0..MaxTime
    /\ balance \in Nat
    /\ Len(plain) = Len(acl)
\* ================================================================ claims
\* Plaintext of the current bid of the i-th bidder (i = 1..Len(bidders)).
Amount(i) == Decrypt(bids[bidders[i]].encryptedAmount)

\* Number of occurrences of a in the bidder list.
Occurrences(a) == Cardinality({i \in 1..Len(bidders) : bidders[i] = a})

\* Bidders whose escrow has not been paid out yet.
Unpaid ==
    {a \in Addr : /\ bids[a].exists
                  /\ \/ ~winnerRevealed
                     \/ IF a = winner THEN ~sellerClaimed ELSE ~refundClaimed[a]}

RECURSIVE EscrowOf(_)
EscrowOf(S) ==
    IF S = {} THEN 0
    ELSE LET a == CHOOSE x \in S : TRUE
         IN  bids[a].escrowAmount + EscrowOf(S \ {a})

\* C1: after a successful endAuction the plaintext of encryptedWinningBid is
\* the maximum of the bidders' current bids and the plaintext of
\* encryptedWinnerIndex is the smallest index holding that maximum.
C1_WinnerSearch ==
    auctionEnded =>
        LET best == Decrypt(encryptedWinningBid)
            idx == Decrypt(encryptedWinnerIndex)
        IN  /\ \A i \in 1..Len(bidders) : Amount(i) <= best
            /\ idx + 1 \in 1..Len(bidders)
            /\ Amount(idx + 1) = best
            /\ \A j \in 1..idx : Amount(j) < best

\* The search ran over a tie: two bidders hold the same maximal bid.
C1_Witness ==
    /\ auctionEnded
    /\ last.op = "endAuction"
    /\ Len(bidders) >= 2
    /\ Amount(1) = Amount(2)
    /\ Decrypt(encryptedWinnerIndex) = 0

\* C2: claimRefund succeeds at most once per address and sellerClaimWinnings
\* at most once in all; once the flag is set a further attempt is rejected as
\* already claimed.
C2_NoDoubleSettlement ==
    /\ \A a \in Addr :
        /\ refundCount[a] = IF refundClaimed[a] THEN 1 ELSE 0
        /\ refundClaimed[a] => claimRefundError(a) = "Refund already claimed"
    /\ sellerCount = IF sellerClaimed THEN 1 ELSE 0
    /\ sellerClaimed => sellerClaimWinningsError(Seller) = "Already claimed"

\* A refund and the seller's payout have both been made.
C2_Witness ==
    /\ sellerCount = 1
    /\ \E a \in Addr : refundCount[a] = 1

\* C3: the contract's balance is the sum of the escrows not yet paid out, so
\* every payout the checks permit is covered.
C3_EscrowAccounting ==
    /\ balance = EscrowOf(Unpaid)
    /\ \A a \in Addr :
        claimRefundError(a) = "ok" => bids[a].escrowAmount <= balance
    /\ sellerClaimWinningsError(Seller) = "ok" =>
        bids[winner].escrowAmount <= balance

\* A refund has been paid while the winner's escrow is still held.
C3_Witness ==
    /\ winnerRevealed
    /\ ~sellerClaimed
    /\ \E a \in Addr : refundClaimed[a]
    /\ balance = bids[winner].escrowAmount
    /\ balance > 0

\* C4: the revealed winner's claimRefund is rejected with "Winner cannot
\* claim refund", and claimRefund never pays the winner.
C4_WinnerCannotRefund ==
    winnerRevealed =>
        /\ claimRefundError(winner) = "Winner cannot claim refund"
        /\ refundCount[winner] = 0
        /\ ~refundClaimed[winner]

\* Everything else is settled and the winner still has no refund.
C4_Witness ==
    /\ winnerRevealed
    /\ sellerClaimed
    /\ Len(bidders) >= 2
    /\ \A a \in Addr : (bids[a].exists /\ a # winner) => refundClaimed[a]

\* C5 as stated: before the reveal every claimRefund and every
\* sellerClaimWinnings call fails with "Winner not revealed yet".
C5_Original ==
    ~winnerRevealed =>
        \A a \in Addr :
            /\ claimRefundError(a) = "Winner not revealed yet"
            /\ sellerClaimWinningsError(a) = "Winner not revealed yet"

\* C5 (amended): before the reveal every claimRefund call fails with "Winner
\* not revealed yet" and every sellerClaimWinnings call fails, with "Winner
\* not revealed yet" for the seller and "Only seller can claim" for anyone
\* else; no claim flag is set and nothing has been paid out. After the reveal
\* a non-winning bidder who has not claimed passes every check of claimRefund
\* and the payment is covered.
C5_NoPrematureSettlement ==
    /\ ~winnerRevealed =>
        /\ \A a \in Addr :
            /\ claimRefundError(a) = "Winner not revealed yet"
            /\ sellerClaimWinningsError(a) =
                   IF a = Seller THEN "Winner not revealed yet"
                   ELSE "Only seller can claim"
            /\ ~refundClaimed[a]
            /\ refundCount[a] = 0
        /\ ~sellerClaimed
        /\ sellerCount = 0
        /\ balance = EscrowOf({a \in Addr : bids[a].exists})
    /\ winnerRevealed =>
        \A a \in Addr :
            (bids[a].exists /\ a # winner /\ ~refundClaimed[a]) =>
                /\ claimRefundError(a) = "ok"
                /\ ~TransferReverts(bids[a].escrowAmount, TRUE, balance)

\* A non-winner's claimRefund has just succeeded, after the reveal.
C5_Witness ==
    /\ winnerRevealed
    /\ last.op = "claimRefund"
    /\ last.result = "ok"
    /\ last.sender # winner
    /\ last.sent = bids[last.sender].escrowAmount

\* C6: an address that has bid has one record, holding the encrypted amount
\* and the escrow of its last successful placeBid only, and occurs once in
\* the bidder list; an address that has not bid has no record and no entry.
C6_SingleLiveBid ==
    \A a \in Addr :
        IF lastBid[a] = NoInput
        THEN ~bids[a].exists /\ Occurrences(a) = 0
        ELSE /\ bids[a].exists
             /\ bids[a].escrowAmount = lastBid[a].value
             /\ Decrypt(bids[a].encryptedAmount) = lastBid[a].amount
             /\ Occurrences(a) = 1

\* An address has bid twice, with a different amount and a different escrow.
C6_Witness ==
    /\ last.op = "placeBid"
    /\ last.result = "ok"
    /\ Len(plain) > Len(bidders)
    /\ plain[1] # plain[2]
    /\ last.sent # 0
    /\ last.sent # last.value

\* C7: a bid update pays the previous escrow back to the bidder in full and
\* stores the new one: balance' = balance - old escrow + new escrow.
C7_UpdateConservesEscrow ==
    [][(/\ last'.op = "placeBid"
        /\ last'.result = "ok"
        /\ bids[last'.sender].exists)
       => /\ last'.sent = bids[last'.sender].escrowAmount
          /\ bids'[last'.sender].escrowAmount = last'.value
          /\ balance' = balance - bids[last'.sender].escrowAmount + last'.value]_vars

\* A bidder raised the escrow in an update and got the old one back.
C7_Witness ==
    /\ last.op = "placeBid"
    /\ last.result = "ok"
    /\ last.sent = 100
    /\ last.value = 200
    /\ balance = 200

\* C8: when the outbound transfer of claimRefund or sellerClaimWinnings
\* fails, the state is as before the call: the claim flag is still false, the
\* balance is unchanged and the same call still passes its checks.
C8_FailedPayoutRollsBack ==
    [][(/\ last'.result = "TransferFailed"
        /\ last'.op \in {"claimRefund", "sellerClaimWinnings"})
       => /\ UNCHANGED cvars
          /\ last'.op = "claimRefund" =>
                /\ ~refundClaimed'[last'.sender]
                /\ claimRefundError(last'.sender) = "ok"
          /\ last'.op = "sellerClaimWinnings" =>
                /\ ~sellerClaimed'
                /\ sellerClaimWinningsError(last'.sender) = "ok"]_vars

\* A payout was refused by its recipient and the claim is still open.
C8_Witness ==
    /\ last.result = "TransferFailed"
    /\ last.op \in {"claimRefund", "sellerClaimWinnings"}
    /\ last.op = "claimRefund" => ~refundClaimed[last.sender]
    /\ last.op = "sellerClaimWinnings" => ~sellerClaimed

\* C9: when the transfer returning the previous escrow fails, placeBid fails
\* as a whole: the record, the balance and the bidder list are unchanged.
C9_FailedUpdateRollsBack ==
    [][(last'.result = "TransferFailed" /\ last'.op = "placeBid")
       => /\ bids[last'.sender].exists
          /\ bids' = bids
          /\ balance' = balance
          /\ bidders' = bidders
          /\ UNCHANGED cvars]_vars

\* An update was refused by the bidder's own address; the old bid stands.
C9_Witness ==
    /\ last.result = "TransferFailed"
    /\ last.op = "placeBid"
    /\ bids[last.sender].exists
    /\ bids[last.sender].escrowAmount # last.value
    /\ balance = EscrowOf(Unpaid)

\* C10: once the auction is ended every endAuction call fails with "Auction
\* already ended", and once the winner is revealed every revealWinner call
\* fails with "Winner already revealed", whatever its arguments.
C10_OneShotPhases ==
    /\ auctionEnded => endAuctionError = "Auction already ended"
    /\ winnerRevealed =>
        \A decryptedIndex \in 0..(Len(bidders) + 1) :
            revealWinnerError(decryptedIndex) = "Winner already revealed"

\* Both one-shot operations have run.
C10_Witness ==
    /\ auctionEnded
    /\ winnerRevealed
    /\ last.op = "revealWinner"

\* C11: from auctionEndTime on every placeBid is rejected with "Auction has
\* ended", whatever the sender, the escrow and the proof, and whether or not
\* endAuction has run; no placeBid gets past its checks at such a time, so
\* none stores a record, extends the bidder list or keeps escrow.
C11_NoBidAfterEndTime ==
    now >= auctionEndTime =>
        /\ \A sender \in Addr, bid \in BidInputs, proofOk \in BOOLEAN :
               placeBidError(sender, bid.value, proofOk) = "Auction has ended"
        /\ last.op # "placeBid"

\* The clock has passed auctionEndTime, endAuction has not run, and the
\* model still has room to store a bid.
C11_Witness ==
    /\ now >= auctionEndTime
    /\ ~auctionEnded
    /\ Len(bidders) = 1
    /\ Len(plain) < MaxHandles

RECURSIVE ObliviousTrace(_)
ObliviousTrace(n) ==
    IF n <= 1 THEN <<"asEuint32">>
    ELSE ObliviousTrace(n - 1) \o <<"gt", "select", "asEuint32", "select">>

\* How often operation op occurs in the recorded trace.
OpCount(op) == Cardinality({k \in 1..Len(fheTrace) : fheTrace[k] = op})

\* C15: the sequence of ciphertext operations of endAuction is a function of
\* the number n of bidders alone, the same for all bid values: n-1
\* comparisons and 2(n-1) selects, both selects in every iteration.
C15_ObliviousSearch ==
    auctionEnded =>
        /\ fheTrace = ObliviousTrace(Len(bidders))
        /\ OpCount("gt") = Len(bidders) - 1
        /\ OpCount("select") = 2 * (Len(bidders) - 1)

\* A search in which the comparison came out false and both selects ran.
C15_Witness ==
    /\ auctionEnded
    /\ Len(bidders) = 2
    /\ Amount(2) < Amount(1)
    /\ OpCount("gt") = 1
    /\ OpCount("select") = 2

\* The phase flags are consistent with the order Open, Ended, Revealed,
\* Settled: a later phase's flag implies the earlier one's.
PhaseOrdered ==
    /\ winnerRevealed => auctionEnded
    /\ (sellerClaimed \/ \E a \in AllAddr : refundClaimed[a]) => winnerRevealed

\* C16: phases only advance: auctionEnded and winnerRevealed never return
\* from true to false, winnerRevealed implies auctionEnded, and a set claim
\* flag (sellerClaimed or any refundClaimed) implies winnerRevealed, before
\* and after every step.
C16_PhaseOrder ==
    [][/\ PhaseOrdered
       /\ PhaseOrdered'
       /\ auctionEnded => auctionEnded'
       /\ winnerRevealed => winnerRevealed']_vars

\* The auction went through all phases: ended, revealed, seller paid and a
\* refund claimed last.
C16_Witness ==
    /\ auctionEnded
    /\ winnerRevealed
    /\ sellerClaimed
    /\ \E a \in Addr : refundClaimed[a] /\ last.op = "claimRefund"
                       /\ last.sender = a /\ last.result = "ok"

\* C17: the Winner Commitment is unwritten until endAuction succeeds, is
\* written by that step and by no other, and from then on neither handle nor
\* the plaintext behind it changes under any operation.
C17_CommitmentWrittenOnce ==
    [][/\ ~auctionEnded =>
           /\ encryptedWinningBid = NoHandle
           /\ encryptedWinnerIndex = NoHandle
       /\ <<encryptedWinningBid, encryptedWinnerIndex>>'
              # <<encryptedWinningBid, encryptedWinnerIndex>> =>
           /\ ~auctionEnded
           /\ auctionEnded'
           /\ last'.op = "endAuction"
           /\ last'.result = "ok"
       /\ (~auctionEnded /\ auctionEnded') =>
           /\ encryptedWinningBid' # NoHandle
           /\ encryptedWinnerIndex' # NoHandle
       /\ auctionEnded =>
           /\ UNCHANGED <<encryptedWinningBid, encryptedWinnerIndex>>
           /\ Decrypt(encryptedWinningBid)' = Decrypt(encryptedWinningBid)
           /\ Decrypt(encryptedWinnerIndex)' = Decrypt(encryptedWinnerIndex)]_vars

\* The commitment is in place and a later operation has run on it.
C17_Witness ==
    /\ auctionEnded
    /\ encryptedWinningBid # NoHandle
    /\ encryptedWinnerIndex # NoHandle
    /\ last.op = "requestResultAccess"
    /\ Len(bidders) = 2

\* C18: the Revealed Result is unwritten (winner the zero address) until
\* revealWinner succeeds, is written by that step and by no other, and from
\* then on none of its three fields changes under any operation.
C18_ResultWrittenOnce ==
    [][/\ ~winnerRevealed =>
           /\ winner = ZeroAddr
           /\ revealedWinnerIndex = 0
           /\ revealedWinningBid = 0
       /\ <<winner, revealedWinnerIndex, revealedWinningBid>>'
              # <<winner, revealedWinnerIndex, revealedWinningBid>> =>
           /\ ~winnerRevealed
           /\ winnerRevealed'
           /\ last'.op = "revealWinner"
           /\ last'.result = "ok"
       /\ (~winnerRevealed /\ winnerRevealed') => winner' # ZeroAddr
       /\ winnerRevealed =>
           UNCHANGED <<winner, revealedWinnerIndex, revealedWinningBid>>]_vars

\* The result is in place and the seller has been paid on it.
C18_Witness ==
    /\ winnerRevealed
    /\ winner # ZeroAddr
    /\ revealedWinnerIndex = 1
    /\ revealedWinningBid > 0
    /\ last.op = "sellerClaimWinnings"
    /\ last.result = "ok"

\* C19: a claim flag never returns from true to false: refundClaimed[a], for
\* every address a, and sellerClaimed are kept by every step of every
\* operation, reverted ones included.
C19_LedgerMonotonic ==
    [][/\ \A a \in AllAddr : refundClaimed[a] => refundClaimed'[a]
       /\ sellerClaimed => sellerClaimed']_vars

\* A refund flag is set and the seller's later payout has just failed.
C19_Witness ==
    /\ \E a \in Addr : refundClaimed[a]
    /\ ~sellerClaimed
    /\ last.op = "sellerClaimWinnings"
    /\ last.result = "TransferFailed"

\* C20: with the recipient of a transfer free to call back into the contract
\* before the transfer completes, nobody is paid more than without
\* re-entrancy: each address is refunded at most once and the seller paid at
\* most once, a suspended claimRefund or sellerClaimWinnings sees its own
\* claim flag already set, so the nested claim is rejected as already
\* claimed, a suspended update sees its new escrow already stored, and the
\* balance is the sum of the escrows not yet paid out - during the nested
\* calls and when the outer call returns or reverts.
C20_ReentrancySafe ==
    /\ \A a \in Addr : refundCount[a] = IF refundClaimed[a] THEN 1 ELSE 0
    /\ sellerCount = IF sellerClaimed THEN 1 ELSE 0
    /\ balance = EscrowOf(Unpaid)
    /\ \A k \in 1..Len(frames) :
        LET c == frames[k].call
        IN  /\ c.op = "claimRefund" =>
                claimRefundError(c.sender) = "Refund already claimed"
            /\ c.op = "sellerClaimWinnings" =>
                sellerClaimWinningsError(c.sender) = "Already claimed"
            /\ c.op = "placeBid" =>
                /\ bids[c.sender].exists
                /\ bids[c.sender].escrowAmount = lastBid[c.sender].value

\* While the seller's payout is in progress the seller, who bid and lost,
\* has called claimRefund from within the transfer and been refunded.
C20_Witness ==
    /\ Len(frames) = 1
    /\ frames[1].call.op = "sellerClaimWinnings"
    /\ last.op = "claimRefund"
    /\ last.sender = Seller
    /\ last.result = "ok"
    /\ refundClaimed[Seller]
    /\ sellerClaimed

\* C21: while the auction has not ended, every ciphertext imported by
\* placeBid can be decrypted by the contract and by one address only, its
\* submitter; for a live bid that address is the bidder owning the record.
C21_BidConfidentiality ==
    ~auctionEnded =>
        /\ \A h \in 1..Len(plain) : \E a \in Addr : acl[h] = {This, a}
        /\ \A a \in Addr :
            bids[a].exists =>
                /\ bids[a].encryptedAmount \in 1..Len(plain)
                /\ acl[bids[a].encryptedAmount] = {This, a}

\* Two bidders hold live bids during bidding, neither allowed on the other's.
C21_Witness ==
    /\ ~auctionEnded
    /\ Len(bidders) = 2
    /\ bids[bidders[1]].encryptedAmount # bids[bidders[2]].encryptedAmount
    /\ bidders[1] \notin acl[bids[bidders[2]].encryptedAmount]
    /\ bidders[2] \notin acl[bids[bidders[1]].encryptedAmount]
    /\ bidders[1] \in acl[bids[bidders[1]].encryptedAmount]

\* C22: for every address b, canClaimRefund(b) reports eligible exactly when
\* a claimRefund call by b would pass all its require checks; the amount it
\* reports is b's stored escrow when eligible and 0 otherwise.
C22_CanClaimRefundAgrees ==
    \A b \in AllAddr :
        LET r == canClaimRefund(b)
        IN  /\ r.canClaim <=> claimRefundError(b) = "ok"
            /\ r.amount = IF claimRefundError(b) = "ok"
                          THEN bids[b].escrowAmount ELSE 0

\* After the reveal one bidder is eligible for its escrow of 200, another
\* address has a record and is not eligible.
C22_Witness ==
    /\ winnerRevealed
    /\ \E b \in Addr :
        /\ canClaimRefund(b).canClaim
        /\ canClaimRefund(b).amount = 200
    /\ \E c \in Addr :
        /\ bids[c].exists
        /\ ~canClaimRefund(c).canClaim
        /\ canClaimRefund(c).amount = 0

\* C23: requestResultAccess is rejected with "Auction not ended" until the
\* auction is ended and passes afterwards; a successful call adds the caller
\* to the principals allowed on encryptedWinningBid and encryptedWinnerIndex,
\* leaves every other grant and everything else unchanged, and a second call
\* by the same caller would change nothing at all.
C23_ResultAccessFrame ==
    [][/\ requestResultAccessError =
              IF auctionEnded THEN "ok" ELSE "Auction not ended"
       /\ last'.op = "requestResultAccess" =>
           /\ auctionEnded
           /\ acl' = Allow(Allow(acl, encryptedWinningBid, last'.sender),
                           encryptedWinnerIndex, last'.sender)
           /\ \A h \in 1..Len(acl) :
                  h \notin {encryptedWinningBid, encryptedWinnerIndex} =>
                      acl'[h] = acl[h]
           /\ acl' = Allow(Allow(acl', encryptedWinningBid', last'.sender),
                           encryptedWinnerIndex', last'.sender)
           /\ UNCHANGED <<now, balance, bids, bidders, auctionEnded, winner,
                          encryptedWinningBid, encryptedWinnerIndex,
                          winnerRevealed, revealedWinnerIndex,
                          revealedWinningBid, refundClaimed, sellerClaimed,
                          plain, fheTrace, refundCount, sellerCount,
                          lastBid>>]_vars

\* A caller who is not a bidder has been granted access to both results of
\* a two-bidder auction and is allowed on neither bid.
C23_Witness ==
    /\ last.op = "requestResultAccess"
    /\ Len(bidders) = 2
    /\ ~bids[last.sender].exists
    /\ last.sender \in acl[encryptedWinningBid]
    /\ last.sender \in acl[encryptedWinnerIndex]
    /\ \A i \in 1..2 : last.sender \notin acl[bids[bidders[i]].encryptedAmount]

\* Every non-winning bidder has claimed and the seller has been paid.
Settled ==
    /\ winnerRevealed
    /\ sellerClaimed
    /\ \A a \in Addr : (bids[a].exists /\ a # winner) => refundClaimed[a]

\* C24: in whatever order the refunds and the seller's payout are claimed,
\* each successful claimRefund pays the caller its own stored escrow and the
\* successful sellerClaimWinnings pays the seller the winner's escrow; what
\* the contract holds depends only on who has been paid, and once all have
\* claimed the state is the same: every non-winning bidder refunded once,
\* the seller paid once, no escrow left in the contract.
C24_SettlementOrderIndependent ==
    /\ (last.op = "claimRefund" /\ last.result = "ok") =>
        last.sent = bids[last.sender].escrowAmount
    /\ (last.op = "sellerClaimWinnings" /\ last.result = "ok") =>
        (last.sender = Seller /\ last.sent = bids[winner].escrowAmount)
    /\ winnerRevealed => balance = EscrowOf(Unpaid)
    /\ Settled =>
        /\ balance = 0
        /\ refundClaimed = [a \in AllAddr |-> bids[a].exists /\ a # winner]
        /\ \A a \in Addr :
            refundCount[a] = IF bids[a].exists /\ a # winner THEN 1 ELSE 0
        /\ sellerCount = 1

\* Settled with the seller paid before the last refund was claimed.
C24_Witness ==
    /\ Settled
    /\ Len(bidders) = 2
    /\ balance = 0
    /\ last.op = "claimRefund"
    /\ last.result = "ok"
    /\ bids[last.sender].escrowAmount # bids[winner].escrowAmount

\* C25: before auctionEndTime endAuction is rejected with "Auction still
\* active" however many bids exist, the auction is not ended and the Winner
\* Commitment is unwritten; endAuction passes its checks exactly when the
\* time has come, the auction is not ended and a bidder exists; the call that
\* ended the auction received and paid nothing and left the contract holding
\* every bidder's escrow.
C25_EndAuctionPreconditions ==
    /\ now < auctionEndTime =>
        /\ endAuctionError = "Auction still active"
        /\ ~auctionEnded
        /\ encryptedWinningBid = NoHandle
        /\ encryptedWinnerIndex = NoHandle
    /\ endAuctionError = "ok" <=>
        (now >= auctionEndTime /\ ~auctionEnded /\ Len(bidders) > 0)
    /\ last.op = "endAuction" =>
        /\ last.result = "ok"
        /\ now >= auctionEndTime
        /\ Len(bidders) > 0
        /\ auctionEnded
        /\ last.value = 0
        /\ last.sent = 0
        /\ balance = EscrowOf({a \in Addr : bids[a].exists})

\* Two bids are in and the clock has not reached auctionEndTime.
C25_Witness ==
    /\ now < auctionEndTime
    /\ Len(bidders) = 2
    /\ endAuctionError = "Auction still active"
    /\ balance > 0

\* C26: revealWinner passes its checks exactly when the auction is ended,
\* the winner not yet revealed and decryptedIndex below the number of
\* bidders; otherwise it is rejected with "Auction not ended", "Winner
\* already revealed" or "Invalid winner index", in this order. The call
\* that succeeded stored its two arguments, set winner to the bidder at the
\* index and winnerRevealed to true, and received and paid nothing.
C26_RevealWinnerContract ==
    /\ \A decryptedIndex \in 0..(Len(bidders) + 1) :
        revealWinnerError(decryptedIndex) =
            IF ~auctionEnded THEN "Auction not ended"
            ELSE IF winnerRevealed THEN "Winner already revealed"
            ELSE IF decryptedIndex >= Len(bidders) THEN "Invalid winner index"
            ELSE "ok"
    /\ last.op = "revealWinner" =>
        /\ last.result = "ok"
        /\ auctionEnded
        /\ winnerRevealed
        /\ last.args[1] < Len(bidders)
        /\ revealedWinnerIndex = last.args[1]
        /\ revealedWinningBid = last.args[2]
        /\ winner = bidders[last.args[1] + 1]
        /\ last.value = 0
        /\ last.sent = 0
        /\ balance = EscrowOf({a \in Addr : bids[a].exists})

\* A reveal of index 0 and bid 0 over two bidders, neither being the
\* plaintext of the commitment, was accepted and stored.
C26_Witness ==
    /\ last.op = "revealWinner"
    /\ Len(bidders) = 2
    /\ last.args = <<0, 0>>
    /\ winner = bidders[1]
    /\ Decrypt(encryptedWinnerIndex) = 1
    /\ Decrypt(encryptedWinningBid) = 1500

\* C27: a placeBid whose msg.value is below minimumBid never passes its
\* checks, for a first bid and for an update alike - while bidding is open
\* it is rejected with "Escrow must meet minimum bid" - so every existing
\* bid record holds an escrow of at least minimumBid.
C27_MinimumEscrow ==
    /\ \A sender \in Addr, bid \in BidInputs, proofOk \in BOOLEAN :
        bid.value < MinimumBid =>
            /\ placeBidError(sender, bid.value, proofOk) # "ok"
            /\ now < auctionEndTime =>
                   placeBidError(sender, bid.value, proofOk)
                       = "Escrow must meet minimum bid"
    /\ \A a \in Addr :
        bids[a].exists =>
            /\ bids[a].escrowAmount >= MinimumBid
            /\ lastBid[a].value >= MinimumBid
    /\ last.op = "placeBid" => last.value >= MinimumBid

\* Bidding is open, a bidder holds a record at exactly minimumBid, and the
\* model has room to store the update a lower escrow would bring.
C27_Witness ==
    /\ now < auctionEndTime
    /\ Len(plain) < MaxHandles
    /\ \E bid \in BidInputs : bid.value < MinimumBid
    /\ \E a \in Addr :
        /\ bids[a].exists
        /\ bids[a].escrowAmount = MinimumBid
        /\ \E b \in Addr : ~bids[b].exists

\* Addresses that have placed a bid at some time.
EverBid == {a \in Addr : lastBid[a] # NoInput}

\* The list holds each address with a bid record exactly once and nothing
\* else, and its length, which getAuctionInfo reports as bidderCount, is the
\* number of addresses that have ever bid.
BiddersIndexLedger ==
    /\ \A a \in Addr : Occurrences(a) = IF bids[a].exists THEN 1 ELSE 0
    /\ \A i \in 1..Len(bidders) : bidders[i] \in Addr
    /\ getAuctionInfo.bidderCount = Len(bidders)
    /\ Len(bidders) = Cardinality(EverBid)

\* C28: the bidder list is append-only and duplicate-free: no step changes
\* or removes an entry, the only change is the append of the sender by the
\* successful placeBid that creates the sender's record, every such first
\* bid appends, exists holds exactly for the listed addresses, each listed
\* once, and the length equals the number of addresses that have ever bid
\* (0 when nobody has).
C28_BidderListAppendOnly ==
    [][/\ BiddersIndexLedger
       /\ BiddersIndexLedger'
       /\ Len(bidders') >= Len(bidders)
       /\ \A i \in 1..Len(bidders) : bidders'[i] = bidders[i]
       /\ bidders' # bidders =>
           /\ last'.op = "placeBid"
           /\ last'.result = "ok"
           /\ ~bids[last'.sender].exists
           /\ bidders' = Append(bidders, last'.sender)
       /\ \A a \in Addr :
           (~bids[a].exists /\ bids'[a].exists) =>
               bidders' = Append(bidders, a)]_vars

\* A bidder has updated its bid: the update was refunded the old escrow and
\* appended nothing, the list still has its single entry.
C28_Witness ==
    /\ Len(bidders) = 1
    /\ last.op = "placeBid"
    /\ last.result = "ok"
    /\ last.sender = bidders[1]
    /\ last.sent > 0
    /\ getAuctionInfo.bidderCount = 1
    /\ EverBid = {bidders[1]}

\* C29: a bid record changes only in a successful placeBid of its owner,
\* made while bidding is open; no call changes another address's record and
\* endAuction, requestResultAccess, revealWinner, claimRefund and
\* sellerClaimWinnings change none, so a paid-out record keeps its escrow
\* amount.
C29_RecordOwnedByBidder ==
    [][/\ \A b \in AllAddr :
           bids'[b] # bids[b] =>
               /\ last'.op = "placeBid"
               /\ last'.result = "ok"
               /\ last'.sender = b
               /\ now < auctionEndTime
       /\ last'.op \in {"endAuction", "requestResultAccess", "revealWinner",
                        "claimRefund", "sellerClaimWinnings"} =>
           bids' = bids
       /\ \A a \in Addr :
           refundClaimed'[a] => bids'[a].escrowAmount = lastBid'[a].value
       /\ sellerClaimed' =>
           bids'[winner'].escrowAmount = lastBid'[winner'].value]_vars

\* Both payouts are done and both records still hold their escrow amounts.
C29_Witness ==
    /\ sellerClaimed
    /\ balance = 0
    /\ bids[winner].escrowAmount >= MinimumBid
    /\ \E a \in Addr :
        /\ refundClaimed[a]
        /\ bids[a].escrowAmount >= MinimumBid
        /\ bids[a].escrowAmount # bids[winner].escrowAmount

\* C30: in every state a sellerClaimWinnings call by any address other than
\* the seller is rejected with "Only seller can claim"; every call that got
\* past the checks was the seller's, and until the seller has been paid the
\* revealed winner's escrow is still in the contract, the winner having no
\* refund.
C30_OnlySellerClaims ==
    /\ \A a \in AllAddr \ {Seller} :
        sellerClaimWinningsError(a) = "Only seller can claim"
    /\ last.op = "sellerClaimWinnings" => last.sender = Seller
    /\ sellerCount > 0 => sellerClaimed
    /\ winnerRevealed =>
        /\ refundCount[winner] = 0
        /\ ~sellerClaimed => balance >= bids[winner].escrowAmount

\* The winner is revealed and is not the seller: the winner's own call is
\* rejected as not the seller's where the seller's call would pass.
C30_Witness ==
    /\ winnerRevealed
    /\ ~sellerClaimed
    /\ winner # Seller
    /\ sellerClaimWinningsError(winner) = "Only seller can claim"
    /\ sellerClaimWinningsError(Seller) = "ok"
    /\ balance >= bids[winner].escrowAmount

\* C31: once endAuction has succeeded the clock is at or past auctionEndTime
\* and stays there, every placeBid is rejected, and no step changes the
\* bidder list, a bid record or the plaintext behind a bid's ciphertext:
\* the ledger stays as it was when the Winner Commitment was computed.
C31_LedgerFrozenAfterEnd ==
    [][/\ now' >= now
       /\ auctionEnded =>
           /\ now >= auctionEndTime
           /\ \A sender \in Addr, bid \in BidInputs, proofOk \in BOOLEAN :
                  placeBidError(sender, bid.value, proofOk) # "ok"
           /\ last'.op # "placeBid"
           /\ bidders' = bidders
           /\ bids' = bids
           /\ \A i \in 1..Len(bidders) : Amount(i)' = Amount(i)]_vars

\* Settlement is complete and the two-bidder ledger still carries the
\* maximum the commitment was computed from.
C31_Witness ==
    /\ auctionEnded
    /\ Settled
    /\ Len(bidders) = 2
    /\ Amount(1) # Amount(2)
    /\ Decrypt(encryptedWinningBid) \in {Amount(1), Amount(2)}
    /\ \A i \in 1..2 : Amount(i) <= Decrypt(encryptedWinningBid)
    /\ \A i \in 1..2 : bids[bidders[i]].escrowAmount >= MinimumBid

\* C32: in every ended state the plaintext of encryptedWinnerIndex is below
\* the number of bidders, so revealWinner with that index is never rejected
\* with "Invalid winner index" and passes until the winner is revealed.
C32_CommittedIndexInRange ==
    auctionEnded =>
        LET idx == Decrypt(encryptedWinnerIndex)
        IN  /\ idx \in 0..(Len(bidders) - 1)
            /\ revealWinnerError(idx) # "Invalid winner index"
            /\ ~winnerRevealed => revealWinnerError(idx) = "ok"

\* The committed index is the last valid one and its reveal would pass.
C32_Witness ==
    /\ auctionEnded
    /\ ~winnerRevealed
    /\ Len(bidders) = 2
    /\ Decrypt(encryptedWinnerIndex) = Len(bidders) - 1
    /\ revealWinnerError(Decrypt(encryptedWinnerIndex)) = "ok"
    /\ revealWinnerError(Len(bidders)) = "Invalid winner index"

\* Addresses other than the contract allowed on a result handle.
ResultReaders(h) == IF h = NoHandle THEN {} ELSE acl[h] \ {This}

\* C33 as stated: after endAuction an address other than the contract is
\* allowed on encryptedWinningBid or encryptedWinnerIndex only if its own
\* requestResultAccess has succeeded, for every number of bidders. With one
\* bidder encryptedWinningBid is that bidder's bid ciphertext, on which
\* placeBid allowed the bidder.
C33_Original ==
    auctionEnded =>
        /\ ResultReaders(encryptedWinningBid) \subseteq requested
        /\ ResultReaders(encryptedWinnerIndex) \subseteq requested

\* C33 (amended): after endAuction the addresses other than the contract
\* allowed on encryptedWinnerIndex are exactly those whose
\* requestResultAccess has succeeded; the same holds for encryptedWinningBid
\* when there are two or more bidders; with a single bidder
\* encryptedWinningBid is that bidder's bid ciphertext and the bidder is
\* allowed on it as well, by placeBid.
C33_ResultAccessOnlyByRequest ==
    auctionEnded =>
        /\ ResultReaders(encryptedWinnerIndex) = requested
        /\ Len(bidders) >= 2 =>
            /\ ResultReaders(encryptedWinningBid) = requested
            /\ \A a \in Addr :
                bids[a].encryptedAmount # encryptedWinningBid
        /\ Len(bidders) = 1 =>
            /\ encryptedWinningBid = bids[bidders[1]].encryptedAmount
            /\ ResultReaders(encryptedWinningBid)
                   = requested \cup {bidders[1]}

\* The single bidder of an ended auction is allowed on the winning bid
\* without having requested access, and another address has requested it.
C33_Witness ==
    /\ auctionEnded
    /\ Len(bidders) = 1
    /\ requested # {}
    /\ bidders[1] \notin requested
    /\ bidders[1] \in acl[encryptedWinningBid]
    /\ bidders[1] \notin acl[encryptedWinnerIndex]

\* C34: once the clock has reached auctionEndTime with an empty bidder list,
\* the auction is neither ended nor revealed, the contract holds nothing,
\* every state-changing function is rejected for every caller and input,
\* and no step changes the contract's state: the auction stays open for
\* ever.
C34_EmptyAuctionStaysOpen ==
    /\ []((now >= auctionEndTime /\ Len(bidders) = 0) =>
           /\ ~auctionEnded
           /\ ~winnerRevealed
           /\ balance = 0
           /\ \A sender \in Addr, bid \in BidInputs, proofOk \in BOOLEAN :
                  placeBidError(sender, bid.value, proofOk)
                      = "Auction has ended"
           /\ endAuctionError = "No bids placed"
           /\ requestResultAccessError = "Auction not ended"
           /\ \A decryptedIndex \in 0..1 :
                  revealWinnerError(decryptedIndex) = "Auction not ended"
           /\ \A a \in Addr :
                  /\ claimRefundError(a) = "Winner not revealed yet"
                  /\ sellerClaimWinningsError(a) # "ok")
    /\ [][(now >= auctionEndTime /\ Len(bidders) = 0) =>
               /\ UNCHANGED cvars
               /\ now' >= auctionEndTime
               /\ Len(bidders') = 0]_vars

\* The clock has reached auctionEndTime and nobody has bid.
C34_Witness ==
    /\ now >= auctionEndTime
    /\ Len(bidders) = 0
    /\ EverBid = {}
    /\ last.op = "tick"

\* C35: once the clock has reached auctionEndTime with at least one bidder,
\* callers who persist with endAuction, revealWinner, each non-winner's
\* claimRefund and the seller's sellerClaimWinnings, with recipients that
\* accept the payment, bring the auction to the settled condition with
\* nothing left in the contract.
C35_SettlementLive ==
    (Len(bidders) > 0 /\ now >= auctionEndTime) ~> (Settled /\ balance = 0)

\* A two-bidder auction settled in full: the seller and the non-winner have
\* been paid and the contract is empty.
C35_Witness ==
    /\ now >= auctionEndTime
    /\ Len(bidders) = 2
    /\ Settled
    /\ balance = 0
    /\ sellerCount = 1
    /\ \E a \in Addr : a # winner /\ refundCount[a] = 1

\* C36: getFHEInstance is single-flight. At most one initialisation attempt
\* is pending, and it is the one initPromise holds; a call made while it is
\* pending returns that promise and starts nothing; once an attempt has
\* succeeded there is one instance, createInstance is not invoked again, no
\* attempt is started, and every call returns that instance.
C36_SingleFlight ==
    /\ [](/\ Cardinality(InProgress) <= 1
          /\ InProgress # {} => InProgress = {initPromise}
          /\ LET done == {p \in 1..Len(promises) :
                              promises[p].state = "fulfilled"}
             IN  /\ Cardinality(done) <= 1
                 /\ (done # {}) = (fheInstance # NoInstance /\ isInitialized)
                 /\ \A p \in done : fheInstance = promises[p].value)
    /\ [][/\ (calls' # calls /\ InProgress # {}) =>
               /\ calls'[Len(calls')] = [path |-> "initPromise",
                                         value |-> initPromise,
                                         state |-> "pending"]
               /\ promises' = promises
               /\ created' = created
          /\ (fheInstance # NoInstance /\ isInitialized) =>
               /\ created' = created
               /\ promises' = promises
               /\ fheInstance' = fheInstance
               /\ isInitialized'
               /\ calls' # calls =>
                      calls'[Len(calls')] = [path |-> "instance",
                                             value |-> fheInstance,
                                             state |-> "fulfilled"]]_vars

\* Two calls shared one pending attempt; after it succeeded a third call got
\* the instance the attempt created.
C36_Witness ==
    /\ Len(calls) = 3
    /\ calls[1].path = "started"
    /\ calls[2] = [path |-> "initPromise", value |-> calls[1].value,
                   state |-> "pending"]
    /\ calls[3].path = "instance"
    /\ calls[3].value = promises[calls[1].value].value
    /\ created = 1

\* C37: a failed initialisation attempt leaves initError set and initPromise
\* null once the call has returned, at whichever step it failed, the
\* provider check included; a call returns the stored promise only while
\* that promise is pending.
C37_RetryAfterFailure ==
    /\ (Len(promises) > 0 /\ promises[Len(promises)].state = "rejected") =>
           /\ initError # NoError
           /\ initPromise = NoPromise
    /\ initPromise # NoPromise => promises[initPromise].state # "rejected"
    /\ \A i \in 1..Len(calls) :
           calls[i].path = "initPromise" => calls[i].state = "pending"
====
